---- MODULE Spec2Model ----
(***************************************************************************)
(* Model of electrum/gui/qt/transaction_dialog_timeout.py: the transaction *)
(* dialog of a (possibly multisig) wallet with its countdown, the          *)
(* process-wide list of open dialogs, and the cosigner pool server's lock  *)
(* record the dialog reads at construction and deletes on broadcast and on *)
(* close.  One dialog (session) is followed from show_transaction_timeout  *)
(* to after its close.                                                     *)
(***************************************************************************)
EXTENDS Integers, Sequences, FiniteSets, TLC

\* ------------------------------------------------------------- constants

\* DURATION_INT = 60 * 10
DURATION_INT == 60 * 10

\* ---------------------------------------------------------------- bounds

\* server.get_current_time() at the moment the dialog is constructed
Now == 5000
\* lock records found at construction leave at most this many seconds
MaxRemaining == 3
\* ... or are at most this many seconds past the configured duration
MaxLate == 2
\* the timer is followed until the counter is this far below zero
MaxOverrun == 1
\* close() calls followed
MaxCloses == 2
\* broadcast attempts followed for a multisig dialog
MaxBroadcasts == 1
\* sign_tx calls followed while their callbacks are outstanding
MaxPending == 2
\* handler calls (export, save) followed while they wait in a nested event loop
MaxWaits == 1
\* elapsed time of the lock record in the countdown scenario (Scenario B)
ScenarioElapsed == 100

\* the one dialog that is followed
SELF == 1

NoLock == [present |-> FALSE]
LockRecord(ts) == [present |-> TRUE, timestamp |-> ts]

\* elapsed times (now - timestamp) of the lock records present at start
ElapsedInputs == (DURATION_INT - MaxRemaining) .. (DURATION_INT + MaxLate)

VARIABLES
    \* cosigner pool server
    lock,               \* server.lock: NoLock or a record with a timestamp
    \* wallet / main window
    isMultisig,         \* type(self.wallet) == Multisig_Wallet
    txComplete,         \* self.tx.is_complete()
    walletCanSign,      \* self.wallet.can_sign(self.tx)
    extKeypairs,        \* bool(self.main_window.tx_external_keypairs)
    canBroadcast,       \* self.wallet.get_tx_info(self.tx).can_broadcast
    \* module state
    dialogs,            \* the module-level list dialogs
    \* the dialog
    created,            \* the TxDialogTimeout object exists
    visible,            \* self.isVisible()
    saved,              \* self.saved
    prompt_if_unsaved,  \* self.prompt_if_unsaved
    time_left_int,      \* self.time_left_int
    timer_active,       \* self.my_qtimer exists and is running
    timed_out,          \* self.timed_out (unset until the timer sets it)
    sign_enabled,       \* self.sign_button.isEnabled()
    broadcast_enabled,  \* self.broadcast_button.isEnabled()
    save_disabled,      \* not self.save_button.isEnabled()
    time_out_label,     \* self.time_out_label text: <<minutes, seconds>>
    signPending,        \* sign_tx calls whose sign_done callback has not run yet
    waitStack,          \* the calls export() and save() are waiting in, innermost last
    \* history
    startLock,          \* the local variable lock of __init__: what server.lock returned
    lockReads,          \* reads of server.lock issued by the dialog
    lockDels,           \* del server.lock issued by the dialog (release_lock)
    serverDeletes,      \* server.delete(wallet_hash) issued by the dialog
    ticks,              \* timer_timeout calls
    closes,             \* close() calls
    everSigned,         \* sign() has been called on the dialog
    lastOp,             \* the handler that ran last
    outcome             \* how the last handler ended for its caller

serverVars == <<lock>>
walletVars == <<isMultisig, txComplete, walletCanSign, extKeypairs, canBroadcast>>
buttonVars == <<sign_enabled, broadcast_enabled, save_disabled>>
timerVars  == <<time_left_int, timer_active, timed_out, time_out_label>>
pendingVars == <<signPending, waitStack>>
histVars   == <<startLock, lockReads, lockDels, serverDeletes, ticks, closes, everSigned>>
vars == <<lock, isMultisig, txComplete, walletCanSign, extKeypairs, canBroadcast,
          dialogs, created, visible, saved, prompt_if_unsaved,
          time_left_int, timer_active, timed_out,
          sign_enabled, broadcast_enabled, save_disabled, time_out_label,
          signPending, waitStack, startLock, lockReads, lockDels, serverDeletes, ticks,
          closes, everSigned, lastOp, outcome>>

\* ------------------------------------------------------- pure operators

\* int(x) of an integer-valued timestamp
PyInt(x) == x

\* "expire = int(lock['timestamp']) if lock else None"; None is modelled as 0,
\* which "if expire:" treats the same way
Expire(lk) == IF lk.present THEN PyInt(lk.timestamp) ELSE 0

\* "if expire:"
TimerStarts(lk) == Expire(lk) # 0

\* faulty variant: the countdown ignores the age of the lock record
RemainingAtStart_no_elapsed(now, expire) == PyInt(DURATION_INT)

\* int((DURATION_INT - (int(server.get_current_time()) - int(expire))))
RemainingAtStart(now, expire) == PyInt(DURATION_INT - (PyInt(now) - PyInt(expire)))

\* self.time_left_int as __init__ leaves it
InitialTimeLeft(now, lk) ==
    IF TimerStarts(lk) THEN RemainingAtStart(now, Expire(lk)) ELSE PyInt(DURATION_INT)

\* mins, secs = divmod(self.time_left_int, 60)
TimeLabel(t) == <<t \div 60, t % 60>>

\* can_sign of update()
CanSign(complete, wcs, ext) == (~complete) /\ (wcs \/ ext)

\* dialogs.remove(self): the list without the first occurrence
RECURSIVE ListRemove(_, _)
ListRemove(l, x) ==
    IF l = << >> THEN << >>
    ELSE IF Head(l) = x THEN Tail(l)
    ELSE <<Head(l)>> \o ListRemove(Tail(l), x)

InList(l, x) == \E i \in 1..Len(l) : l[i] = x

\* ---------------------------------------------------------------- Init

\* the lock records a dialog may find: none, or one nearly or just expired
StartLocks == {NoLock} \cup {LockRecord(Now - e) : e \in ElapsedInputs}

\* the lock records of the countdown scenario: fresh, ScenarioElapsed old,
\* and one second before expiry
ScenarioLocks == {LockRecord(Now - e) : e \in {0, ScenarioElapsed, DURATION_INT - 1}}

\* the process before any dialog is shown, the server holding one of locks
InitWith(locks) ==
    /\ lock \in locks
    /\ isMultisig \in BOOLEAN
    /\ txComplete \in BOOLEAN
    /\ walletCanSign \in BOOLEAN
    /\ extKeypairs \in BOOLEAN
    /\ canBroadcast \in {b \in BOOLEAN : b => txComplete}  \* only a complete transaction is broadcastable
    /\ dialogs = << >>
    /\ created = FALSE
    /\ visible = FALSE
    /\ saved = FALSE
    /\ prompt_if_unsaved = FALSE
    /\ time_left_int = 0
    /\ timer_active = FALSE
    /\ timed_out = FALSE
    /\ sign_enabled = FALSE
    /\ broadcast_enabled = FALSE
    /\ save_disabled = FALSE
    /\ time_out_label = <<0, 0>>
    /\ signPending = 0
    /\ waitStack = << >>
    /\ startLock = NoLock
    /\ lockReads = 0
    /\ lockDels = 0
    /\ serverDeletes = 0
    /\ ticks = 0
    /\ closes = 0
    /\ everSigned = FALSE
    /\ lastOp = "none"
    /\ outcome = "ok"

Init == InitWith(StartLocks)

\* ---------------------------------------------------- handler fragments

\* update(): the parts of the dialog it recomputes, from the values the
\* handler leaves in the wallet and in time_left_int
update(complete, cb, t) ==
    /\ broadcast_enabled' = cb
    /\ sign_enabled' = CanSign(complete, walletCanSign, extKeypairs)
    /\ time_out_label' = TimeLabel(t)

\* "lock = server.lock": the cosigner pool's record for the wallet, or none
server_lock_get ==
    /\ startLock' = lock
    /\ lockReads' = lockReads + 1

\* "del server.lock": the record is removed; removing an absent record is
\* a no-op, not an error
server_lock_del ==
    /\ lock' = NoLock
    /\ lockDels' = lockDels + 1

\* "server.delete(wallet_hash)": releases the lock of this wallet identity
server_delete ==
    /\ lock' = NoLock
    /\ serverDeletes' = serverDeletes + 1

\* release_lock(): del server.lock for a multisig wallet
release_lock ==
    IF isMultisig
    THEN server_lock_del
    ELSE UNCHANGED <<lock, lockDels>>

\* faulty variant: release_lock() runs whether or not the dialog was in the list
closeEvent_release_always ==
    /\ dialogs' = ListRemove(dialogs, SELF)
    /\ release_lock

\* faulty variant: the close event releases the lock and leaves the dialog in
\* the list
closeEvent_no_remove ==
    IF InList(dialogs, SELF)
    THEN /\ dialogs' = dialogs
         /\ release_lock
    ELSE UNCHANGED <<dialogs, lock, lockDels>>

\* closeEvent(): dialogs.remove(self) raises ValueError when the dialog is
\* not in the list, which skips release_lock()
closeEvent ==
    IF InList(dialogs, SELF)
    THEN /\ dialogs' = ListRemove(dialogs, SELF)
         /\ release_lock
    ELSE UNCHANGED <<dialogs, lock, lockDels>>

\* QWidget.close(): delivers the close event, which is accepted, and hides
close ==
    /\ closeEvent
    /\ visible' = FALSE
    /\ closes' = closes + 1

\* -------------------------------------------------------------- actions

\* faulty variant: the lock record is read before the transaction is
\* deserialized, so a malformed transaction still costs a read
show_transaction_timeout_reads_first(ok, now) ==
    /\ ~created
    /\ lastOp' = "show_transaction_timeout"
    /\ IF ~ok
       THEN /\ outcome' = "malformed"
            /\ server_lock_get
            /\ UNCHANGED <<serverVars, walletVars, dialogs, created, visible, saved,
                           prompt_if_unsaved, timerVars, buttonVars, pendingVars,
                           lockDels, serverDeletes, ticks, closes, everSigned>>
       ELSE /\ outcome' = "ok"
            /\ created' = TRUE
            /\ prompt_if_unsaved' = FALSE
            /\ saved' = FALSE
            /\ save_disabled' = ~txComplete
            /\ server_lock_get
            /\ time_left_int' = InitialTimeLeft(now, startLock')
            /\ timer_active' = TimerStarts(startLock')
            /\ update(txComplete, canBroadcast, time_left_int')
            /\ dialogs' = Append(dialogs, SELF)
            /\ visible' = TRUE
            /\ UNCHANGED <<serverVars, walletVars, timed_out, pendingVars,
                           lockDels, serverDeletes, ticks, closes, everSigned>>

\* show_transaction_timeout(tx, signed, parent) with a transaction that
\* deserializes (ok) or one that does not; prompt_if_unsaved keeps its
\* default, False
show_transaction_timeout(ok, now) ==
    /\ ~created
    /\ lastOp' = "show_transaction_timeout"
    /\ IF ~ok
       THEN \* __init__ raises SerializationError at tx.deserialize();
            \* the caller is shown a critical message and gets None
            /\ outcome' = "malformed"
            /\ UNCHANGED <<serverVars, walletVars, dialogs, created, visible, saved,
                           prompt_if_unsaved, timerVars, buttonVars, pendingVars,
                           histVars>>
       ELSE /\ outcome' = "ok"
            /\ created' = TRUE
            /\ prompt_if_unsaved' = FALSE
            /\ saved' = FALSE
            /\ save_disabled' = ~txComplete
            /\ server_lock_get
            /\ time_left_int' = InitialTimeLeft(now, startLock')
            /\ timer_active' = TimerStarts(startLock')
            /\ update(txComplete, canBroadcast, time_left_int')
            /\ dialogs' = Append(dialogs, SELF)
            /\ visible' = TRUE
            /\ UNCHANGED <<serverVars, walletVars, timed_out, pendingVars,
                           lockDels, serverDeletes, ticks, closes, everSigned>>

\* faulty variant: the deletion follows the broadcast call instead of sitting in
\* the finally clause, so a raising broadcast skips it
do_broadcast_release_on_success(raises) ==
    /\ created /\ visible /\ broadcast_enabled
    /\ lastOp' = "do_broadcast"
    /\ serverDeletes < MaxBroadcasts
    /\ IF isMultisig /\ ~raises
       THEN server_delete
       ELSE UNCHANGED <<lock, serverDeletes>>
    /\ IF raises
       THEN /\ outcome' = "broadcast_error"
            /\ UNCHANGED <<saved, sign_enabled, broadcast_enabled, time_out_label>>
       ELSE /\ outcome' = "broadcast_done"
            /\ saved' = TRUE
            /\ update(txComplete, canBroadcast, time_left_int)
    /\ UNCHANGED <<walletVars, dialogs, created, visible, prompt_if_unsaved,
                   time_left_int, timer_active, timed_out, save_disabled, pendingVars,
                   startLock, lockReads, lockDels, ticks, closes, everSigned>>

\* do_broadcast(): the Broadcast button; main_window.broadcast_transaction
\* returns (raises = FALSE) or raises
do_broadcast(raises) ==
    /\ created /\ visible /\ broadcast_enabled
    /\ lastOp' = "do_broadcast"
    /\ serverDeletes < MaxBroadcasts
    /\ IF isMultisig
       THEN server_delete
       ELSE UNCHANGED <<lock, serverDeletes>>
    /\ IF raises
       THEN /\ outcome' = "broadcast_error"
            /\ UNCHANGED <<saved, sign_enabled, broadcast_enabled, time_out_label>>
       ELSE /\ outcome' = "broadcast_done"
            /\ saved' = TRUE
            /\ update(txComplete, canBroadcast, time_left_int)
    /\ UNCHANGED <<walletVars, dialogs, created, visible, prompt_if_unsaved,
                   time_left_int, timer_active, timed_out, save_disabled, pendingVars,
                   startLock, lockReads, lockDels, ticks, closes, everSigned>>

\* faulty variant: the tick that reaches zero sets timed_out and does not close
timer_timeout_no_close ==
    /\ timer_active
    /\ lastOp' = "timer_timeout"
    /\ time_left_int > -MaxOverrun
    /\ outcome' = "ok"
    /\ time_left_int' = time_left_int - 1
    /\ ticks' = ticks + 1
    /\ IF time_left_int' = 0 /\ visible
       THEN /\ timed_out' = TRUE
            /\ UNCHANGED <<dialogs, lock, lockDels, visible, closes>>
       ELSE UNCHANGED <<timed_out, dialogs, lock, lockDels, visible, closes>>
    /\ update(txComplete, canBroadcast, time_left_int')
    /\ UNCHANGED <<walletVars, created, saved, prompt_if_unsaved, timer_active,
                   save_disabled, pendingVars, startLock, lockReads, serverDeletes, everSigned>>

\* faulty variant: the tick closes the dialog at or below zero, not only at zero
timer_timeout_closes_below_zero ==
    /\ timer_active
    /\ lastOp' = "timer_timeout"
    /\ time_left_int > -MaxOverrun
    /\ outcome' = "ok"
    /\ time_left_int' = time_left_int - 1
    /\ ticks' = ticks + 1
    /\ IF time_left_int' <= 0 /\ visible
       THEN /\ timed_out' = TRUE
            /\ close
       ELSE UNCHANGED <<timed_out, dialogs, lock, lockDels, visible, closes>>
    /\ update(txComplete, canBroadcast, time_left_int')
    /\ UNCHANGED <<walletVars, created, saved, prompt_if_unsaved, timer_active,
                   save_disabled, pendingVars, startLock, lockReads, serverDeletes, everSigned>>

\* timer_timeout(): the QTimer started by timer_start fires; nothing stops it
timer_timeout ==
    /\ timer_active
    /\ lastOp' = "timer_timeout"
    /\ time_left_int > -MaxOverrun
    /\ outcome' = "ok"
    /\ time_left_int' = time_left_int - 1
    /\ ticks' = ticks + 1
    /\ IF time_left_int' = 0 /\ visible
       THEN /\ timed_out' = TRUE
            /\ close
       ELSE UNCHANGED <<timed_out, dialogs, lock, lockDels, visible, closes>>
    /\ update(txComplete, canBroadcast, time_left_int')
    /\ UNCHANGED <<walletVars, created, saved, prompt_if_unsaved, timer_active,
                   save_disabled, pendingVars, startLock, lockReads, serverDeletes, everSigned>>

\* self.close(): the Close button (cancel_button.clicked) or any other caller
Close ==
    /\ created
    /\ lastOp' = "close"
    /\ closes < MaxCloses
    /\ outcome' = "ok"
    /\ close
    /\ UNCHANGED <<walletVars, created, saved, prompt_if_unsaved, timerVars,
                   buttonVars, pendingVars, startLock, lockReads, serverDeletes, ticks, everSigned>>

\* reject(): the escape key
reject ==
    /\ created
    /\ lastOp' = "reject"
    /\ closes < MaxCloses
    /\ outcome' = "ok"
    /\ close
    /\ UNCHANGED <<walletVars, created, saved, prompt_if_unsaved, timerVars,
                   buttonVars, pendingVars, startLock, lockReads, serverDeletes, ticks, everSigned>>

\* sign(): the Sign button; main_window.sign_tx runs and calls back later.
\* The button sign() disabled is enabled again by any update() that runs
\* before the callback, so a further sign_tx can start while one is pending
sign ==
    /\ created /\ visible /\ sign_enabled
    /\ signPending < MaxPending
    /\ lastOp' = "sign"
    /\ outcome' = "ok"
    /\ sign_enabled' = FALSE
    /\ signPending' = signPending + 1
    /\ everSigned' = TRUE
    /\ UNCHANGED <<serverVars, walletVars, dialogs, created, visible, saved,
                   prompt_if_unsaved, timerVars, broadcast_enabled, save_disabled,
                   waitStack, startLock, lockReads, lockDels, serverDeletes,
                   ticks, closes>>

\* the wallet's side of a sign request: on success the transaction gains
\* a signature (and may become complete), and for a multisig wallet the
\* cosigner pool creates or refreshes the lock record
WalletSigns(success, complete, cb) ==
    IF success
    THEN /\ txComplete' = complete
         /\ canBroadcast' = cb
         /\ lock' = IF isMultisig THEN LockRecord(Now) ELSE lock
    ELSE UNCHANGED <<txComplete, canBroadcast, lock>>

\* faulty variant: the callback forgets self.save_button.setDisabled(False)
sign_done_save_stays_disabled(success, complete, cb) ==
    /\ signPending > 0
    /\ lastOp' = "sign_done"
    /\ outcome' = IF success THEN "ok" ELSE "sign_failed"
    /\ signPending' = signPending - 1
    /\ WalletSigns(success, complete, cb)
    /\ IF txComplete'
       THEN /\ prompt_if_unsaved' = TRUE
            /\ saved' = FALSE
            /\ save_disabled' = save_disabled
       ELSE UNCHANGED <<prompt_if_unsaved, saved, save_disabled>>
    /\ update(txComplete', canBroadcast', time_left_int)
    /\ UNCHANGED <<isMultisig, walletCanSign, extKeypairs, dialogs, created, visible,
                   time_left_int, timer_active, timed_out, waitStack, histVars>>

\* sign_done(success): the completion callback of sign_tx
sign_done(success, complete, cb) ==
    /\ signPending > 0
    /\ lastOp' = "sign_done"
    /\ outcome' = IF success THEN "ok" ELSE "sign_failed"
    /\ signPending' = signPending - 1
    /\ WalletSigns(success, complete, cb)
    /\ IF txComplete'
       THEN /\ prompt_if_unsaved' = TRUE
            /\ saved' = FALSE
            /\ save_disabled' = FALSE
       ELSE UNCHANGED <<prompt_if_unsaved, saved, save_disabled>>
    /\ update(txComplete', canBroadcast', time_left_int)
    /\ UNCHANGED <<isMultisig, walletCanSign, extKeypairs, dialogs, created, visible,
                   time_left_int, timer_active, timed_out, waitStack, histVars>>

Top(stack) == stack[Len(stack)]
Pop(stack) == SubSeq(stack, 1, Len(stack) - 1)

\* save(), up to its wait in main_window.save_transaction_into_wallet: the
\* Save button. The main window reports in a message box, which runs an
\* event loop of its own, before save() goes on
save ==
    /\ created /\ visible /\ ~save_disabled
    /\ Len(waitStack) < MaxWaits
    /\ lastOp' = "save"
    /\ outcome' = "ok"
    /\ waitStack' = Append(waitStack, "save_transaction_into_wallet")
    /\ UNCHANGED <<serverVars, walletVars, dialogs, created, visible, saved,
                   prompt_if_unsaved, timerVars, buttonVars, signPending, histVars>>

\* save(), after save_transaction_into_wallet returned stored: the Save
\* button is disabled and saved set, whatever happened to the dialog in
\* the meantime
save_stored(stored) ==
    /\ waitStack # << >>
    /\ Top(waitStack) = "save_transaction_into_wallet"
    /\ lastOp' = "save_stored"
    /\ outcome' = "ok"
    /\ waitStack' = Pop(waitStack)
    /\ IF stored
       THEN /\ save_disabled' = TRUE
            /\ saved' = TRUE
       ELSE UNCHANGED <<save_disabled, saved>>
    /\ UNCHANGED <<serverVars, walletVars, dialogs, created, visible,
                   prompt_if_unsaved, timerVars, sign_enabled, broadcast_enabled,
                   signPending, histVars>>

\* the file names getSaveFileName can return: none (the file dialog was
\* cancelled), one that open() cannot create, one that open() can create
FileNames == {"", "unwritable", "writable"}

\* export(), up to its wait in main_window.getSaveFileName: the Export
\* button. The file dialog runs an event loop of its own, in which timer
\* ticks and callbacks are delivered before export() goes on
export ==
    /\ created /\ visible
    /\ Len(waitStack) < MaxWaits
    /\ lastOp' = "export"
    /\ outcome' = "ok"
    /\ waitStack' = Append(waitStack, "getSaveFileName")
    /\ UNCHANGED <<serverVars, walletVars, dialogs, created, visible, saved,
                   prompt_if_unsaved, timerVars, buttonVars, signPending, histVars>>

\* export(), from the return of getSaveFileName to its wait in
\* show_message: no name ends the handler, a name open() fails on raises
\* out of it, otherwise the file is written and the message box opens
export_write(fileName) ==
    /\ waitStack # << >>
    /\ Top(waitStack) = "getSaveFileName"
    /\ lastOp' = "export_write"
    /\ IF fileName = ""
       THEN /\ outcome' = "ok"
            /\ waitStack' = Pop(waitStack)
       ELSE IF fileName = "unwritable"
       THEN /\ outcome' = "export_error"
            /\ waitStack' = Pop(waitStack)
       ELSE /\ outcome' = "ok"
            /\ waitStack' = Append(Pop(waitStack), "show_message")
    /\ UNCHANGED <<serverVars, walletVars, dialogs, created, visible, saved,
                   prompt_if_unsaved, timerVars, buttonVars, signPending, histVars>>

\* export(), after show_message returned: self.saved = True, whatever
\* happened to the dialog in the meantime
export_saved ==
    /\ waitStack # << >>
    /\ Top(waitStack) = "show_message"
    /\ lastOp' = "export_saved"
    /\ outcome' = "ok"
    /\ waitStack' = Pop(waitStack)
    /\ saved' = TRUE
    /\ UNCHANGED <<serverVars, walletVars, dialogs, created, visible,
                   prompt_if_unsaved, timerVars, buttonVars, signPending, histVars>>

\* another cosigner of the same wallet creates or refreshes the lock record
\* while the dialog exists (Init covers the records made before)
CosignerLocks ==
    /\ isMultisig
    /\ created
    /\ lastOp' = "cosigner"
    /\ outcome' = "ok"
    /\ lock' = LockRecord(Now)
    /\ UNCHANGED <<walletVars, dialogs, created, visible, saved, prompt_if_unsaved,
                   timerVars, buttonVars, pendingVars, histVars>>

ShowStep == \E ok \in BOOLEAN : show_transaction_timeout(ok, Now)
BroadcastStep == \E raises \in BOOLEAN : do_broadcast(raises)
\* a complete transaction stays complete; only a complete one is broadcastable
SignDoneStep == \E success \in BOOLEAN, complete \in BOOLEAN, cb \in BOOLEAN :
                    /\ cb => complete
                    /\ txComplete => complete
                    /\ sign_done(success, complete, cb)
SaveStoredStep == \E stored \in BOOLEAN : save_stored(stored)
ExportWriteStep == \E fileName \in FileNames : export_write(fileName)

Next ==
    \/ ShowStep
    \/ BroadcastStep
    \/ timer_timeout
    \/ Close
    \/ reject
    \/ sign
    \/ SignDoneStep
    \/ save
    \/ SaveStoredStep
    \/ export
    \/ ExportWriteStep
    \/ export_saved
    \/ CosignerLocks

Spec == Init /\ [][Next]_vars

\* The countdown scenario: a dialog is shown while a lock record exists and
\* is then left alone; the QTimer fires every second while the event loop runs
ScenarioInit == InitWith(ScenarioLocks)

ScenarioNext ==
    \/ ShowStep
    \/ timer_timeout

SpecScenario == ScenarioInit /\ [][ScenarioNext]_vars /\ WF_vars(timer_timeout)

\* ------------------------------------------------ states of the session

\* the session is Closed: the dialog exists and is no longer displayed
Closed == created /\ ~visible

\* lock deletions the dialog has issued, by either call
Deletions == lockDels + serverDeletes

\* the session started from a lock record (countdown running since __init__)
StartedLocked == created /\ startLock.present

\* elapsed time of the lock record __init__ read
ElapsedAtStart == IF startLock.present THEN Now - startLock.timestamp ELSE 0

\* computeRemaining(now, lockTimestamp, configuredDuration) as the
\* specification states it: the difference, clamped to >= 0
ComputeRemaining(now, ts, d) == IF d - (now - ts) >= 0 THEN d - (now - ts) ELSE 0

\* ---------------------------------------------------------------- claims

\* C1: a multisig session that holds a lock (it started from an unexpired record)
\* issues at most one lock deletion, and exactly one by the time it is Closed
\* (stated for sessions with at most one broadcast attempt: the second
\* deletion in question is the close event's).
C1_ReleasedExactlyOnce ==
    (isMultisig /\ StartedLocked /\ ElapsedAtStart < DURATION_INT /\ serverDeletes <= 1) =>
        /\ Deletions <= 1
        /\ (Closed => Deletions = 1)

\* C2: close() is idempotent for a multisig session: the close event releases
\* the lock at most once, and every close() after the first leaves the
\* session, the dialog list and the lock record unchanged and raises nothing.
C2_CloseIdempotent ==
    /\ [](isMultisig => lockDels <= 1)
    /\ [][(isMultisig /\ closes >= 1 /\ closes' = closes + 1) =>
            /\ UNCHANGED <<lock, lockDels, serverDeletes, dialogs, visible, saved,
                           prompt_if_unsaved, timerVars, buttonVars, pendingVars>>
            /\ outcome' = "ok"]_vars

\* C2 witness: a multisig session closed twice while another cosigner's lock
\* record, made after the first close, is still there
C2_Witness ==
    /\ isMultisig /\ closes = 2 /\ lastOp \in {"close", "reject"}
    /\ lockDels = 1 /\ lock.present

\* C3: the countdown __init__ seeds from a lock record equals
\* computeRemaining(now, lockTimestamp, D): D - E for E <= D, 0 for E > D.
C3_SeedIsComputeRemaining ==
    (lastOp = "show_transaction_timeout" /\ StartedLocked) =>
        time_left_int = ComputeRemaining(Now, Now - ElapsedAtStart, DURATION_INT)

\* C4: in every state of a session, timeRemainingSeconds (time_left_int) is >= 0.
C4_TimeLeftNonNegative ==
    created => time_left_int >= 0

\* C5: a session of a single-signature wallet never reads the lock record,
\* never deletes it and never starts a countdown from it.
C5_SingleSigNeverTouchesLock ==
    (~isMultisig) =>
        /\ lockReads = 0
        /\ Deletions = 0
        /\ ~timer_active

\* C6: for a multisig wallet every broadcast attempt, returning or raising,
\* ends with the lock record removed; after a raising broadcast the dialog
\* is still open, still in the dialog list, and can be closed.
C6_BroadcastAlwaysReleases ==
    (lastOp = "do_broadcast" /\ isMultisig) =>
        /\ ~lock.present
        /\ serverDeletes >= 1
        /\ (outcome = "broadcast_error" =>
                created /\ visible /\ InList(dialogs, SELF) /\ ENABLED Close)

\* C6 witness: a multisig dialog whose broadcast raised: lock removed, still open
C6_Witness ==
    /\ lastOp = "do_broadcast" /\ outcome = "broadcast_error"
    /\ isMultisig /\ StartedLocked /\ serverDeletes = 1
    /\ ~lock.present /\ visible

\* C7: a tick that brings the counter to exactly 0 while the dialog is
\* displayed marks it timed out and closes it in the same step, releasing
\* the lock of a multisig wallet; no state is timed out and still open.
C7_ExpiryClosesInSameStep ==
    /\ [](timed_out => (~visible /\ ~InList(dialogs, SELF)))
    /\ [][(ticks' = ticks + 1 /\ time_left_int' = 0 /\ visible) =>
            /\ timed_out'
            /\ ~visible'
            /\ ~InList(dialogs', SELF)
            /\ (isMultisig => (~lock'.present /\ lockDels' = lockDels + 1))]_vars

\* C7 witness: a multisig dialog just closed by the tick that reached 0
C7_Witness ==
    /\ lastOp = "timer_timeout" /\ time_left_int = 0 /\ timed_out
    /\ isMultisig /\ ~visible /\ lockDels = 1 /\ ~lock.present

\* C8: a tick after the session is Closed has no effect: it changes neither
\* the counter, the timed-out flag, the lock record nor any button.
C8_TickAfterClosedIsNoOp ==
    [][(ticks' = ticks + 1 /\ Closed) =>
            UNCHANGED <<time_left_int, timed_out, lock, lockDels, serverDeletes,
                        dialogs, visible, saved, buttonVars>>]_vars

\* C9: a multisig session created from a lock record E seconds old
\* (0 <= E < D) starts its countdown at D - E; before D - E ticks it is open
\* with no deletion issued; from D - E ticks on it is Closed with exactly one
\* deletion issued; and with the timer firing, D - E ticks do arrive.
C9Case == isMultisig /\ StartedLocked /\ ElapsedAtStart >= 0 /\ ElapsedAtStart < DURATION_INT

C9_CountdownExpires ==
    /\ []((C9Case /\ lastOp = "show_transaction_timeout") =>
            time_left_int = DURATION_INT - ElapsedAtStart)
    /\ []((C9Case /\ ticks < DURATION_INT - ElapsedAtStart) =>
            (visible /\ Deletions = 0 /\ lock.present))
    /\ []((C9Case /\ ticks >= DURATION_INT - ElapsedAtStart) =>
            (Closed /\ timed_out /\ Deletions = 1 /\ ~lock.present))
    /\ ((C9Case /\ ticks < DURATION_INT - ElapsedAtStart) ~>
            (C9Case /\ ticks = DURATION_INT - ElapsedAtStart /\ Closed /\ Deletions = 1))

\* C9 witness: Scenario B: the record was ScenarioElapsed old, and after
\* D - ScenarioElapsed ticks the dialog is closed and the lock deleted once
C9_Witness ==
    /\ C9Case /\ ElapsedAtStart = ScenarioElapsed
    /\ ticks = DURATION_INT - ScenarioElapsed
    /\ lastOp = "timer_timeout"
    /\ Closed /\ lockDels = 1 /\ serverDeletes = 0 /\ ~lock.present

\* C10: a successful broadcast moves the session to Closed,
\* releases the lock and marks the session saved.
C10_BroadcastCloses ==
    (lastOp = "do_broadcast" /\ outcome = "broadcast_done") =>
        /\ Closed
        /\ saved
        /\ (isMultisig => ~lock.present)

\* C11: signing is permitted (the Sign button is enabled) if and only if
\* the transaction is incomplete, the wallet can sign it or external keys
\* are supplied, and the session is neither Expired nor Closed (stated for
\* the states with no sign operation in flight).
C11_SignPermittedIff ==
    (created /\ signPending = 0) =>
        (sign_enabled <=>
            /\ ~txComplete
            /\ (walletCanSign \/ extKeypairs)
            /\ ~timed_out
            /\ ~Closed)

\* C12: broadcasting is permitted (the Broadcast button is enabled) if and
\* only if the wallet reports the transaction broadcastable and the session
\* is not Closed.
C12_BroadcastPermittedIff ==
    created => (broadcast_enabled <=> (canBroadcast /\ ~Closed))

\* C13: when a sign operation completes on a multisig session and the
\* transaction has become complete, the Sign button is disabled, the Save
\* button is enabled and the lock record is present; the completion of a
\* sign operation never deletes the lock record.
C13_SignCompleteKeepsLock ==
    /\ []((lastOp = "sign_done" /\ outcome = "ok" /\ isMultisig /\ txComplete) =>
            (~sign_enabled /\ ~save_disabled /\ lock.present))
    /\ [][(lastOp' = "sign_done") =>
            /\ lockDels' = lockDels
            /\ serverDeletes' = serverDeletes
            /\ (lock.present => lock'.present)]_vars

\* C13 witness: a displayed multisig dialog whose sign operation just made
\* the transaction complete
C13_Witness ==
    /\ lastOp = "sign_done" /\ outcome = "ok" /\ isMultisig /\ txComplete
    /\ visible /\ ~sign_enabled /\ ~save_disabled /\ lock.present /\ Deletions = 0

\* C14: when the transaction cannot be deserialized, no dialog is added to
\* the list of open dialogs or shown, no countdown is started, the lock
\* record is neither read nor deleted, and the caller gets the distinct
\* outcome "malformed".
C14_MalformedHasNoEffect ==
    (outcome = "malformed") =>
        /\ lastOp = "show_transaction_timeout"
        /\ ~created /\ ~visible
        /\ dialogs = << >>
        /\ ~timer_active /\ ticks = 0
        /\ lockReads = 0
        /\ Deletions = 0
        /\ startLock = NoLock

\* C14 witness: a malformed transaction was offered while a lock record of
\* a multisig wallet was present on the server
C14_Witness ==
    /\ outcome = "malformed" /\ lastOp = "show_transaction_timeout"
    /\ isMultisig /\ lock.present
    /\ ~created /\ lockReads = 0

\* C15: a multisig session that started without a lock record (AwaitingLock)
\* becomes Locked when a sign operation succeeds: from then on, while the
\* dialog is displayed and the record is present, the countdown is running.
C15_SignStartsCountdown ==
    (/\ isMultisig /\ created /\ visible
     /\ ~startLock.present
     /\ lastOp = "sign_done" /\ outcome = "ok"
     /\ lock.present)
        => timer_active

\* C16: right after a successful creation the session is Locked, with the
\* countdown running from DURATION_INT minus the elapsed time, exactly when
\* the wallet is multisig and an unexpired lock record exists; it is Idle
\* (no countdown) for a non-multisig wallet and AwaitingLock (no countdown)
\* when the record is absent or expired (elapsed >= DURATION_INT).
C16_InitialState ==
    (created /\ lastOp = "show_transaction_timeout") =>
        /\ timer_active <=>
              (isMultisig /\ startLock.present /\ ElapsedAtStart < DURATION_INT)
        /\ timer_active => time_left_int = DURATION_INT - ElapsedAtStart

\* C17: a close releases the lock only if this session holds it: closing a
\* multisig session that found no lock record when it started and never
\* signed leaves the lock record (another party's, if any) as it is.
C17_CloseReleasesOnlyIfHeld ==
    [][(/\ isMultisig /\ created
        /\ ~startLock.present /\ ~everSigned
        /\ closes' = closes + 1)
          => lock' = lock]_vars

\* C18: when the dialog was closed while a sign operation was in flight,
\* the completion callback arriving after Closed changes no session state
\* (saved flag, prompt flag, Sign and Save availability) and deletes no
\* lock record.
C18_CompletionAfterClosedIsNoOp ==
    [][(Closed /\ lastOp' = "sign_done") =>
          /\ UNCHANGED <<saved, prompt_if_unsaved, sign_enabled, save_disabled>>
          /\ lockDels' = lockDels
          /\ serverDeletes' = serverDeletes]_vars

\* C19: a tick closes the dialog as expired only when it makes the
\* remaining time exactly 0 while the dialog is visible; every other tick
\* decrements the counter by one and leaves visibility, the expired flag,
\* the list of dialogs and the lock record unchanged, so a countdown seeded
\* at or below 0 never marks the session expired.
C19_ExpiryOnlyAtZeroWhileVisible ==
    /\ [][(ticks' = ticks + 1) =>
            /\ time_left_int' = time_left_int - 1
            /\ IF time_left_int' = 0 /\ visible
               THEN timed_out' /\ ~visible' /\ closes' = closes + 1
               ELSE UNCHANGED <<visible, timed_out, dialogs, lock, lockDels, closes>>]_vars
    /\ []((created /\ time_left_int + ticks <= 0) => ~timed_out)

\* C19 witness: a countdown seeded at or below 0 has ticked and the dialog
\* is still displayed and not expired
C19_Witness ==
    /\ lastOp = "timer_timeout" /\ ticks >= 1
    /\ time_left_int + ticks <= 0
    /\ visible /\ ~timed_out /\ closes = 0

\* C20: the dialog is in the list of open dialogs exactly from its
\* successful creation until its first close event, and a close event
\* deletes the lock record if and only if the dialog was in the list when
\* the event began and the wallet is multisig; after any close event the
\* dialog is out of the list.
C20_ReleaseIffInDialogs ==
    /\ [](/\ created => (InList(dialogs, SELF) <=> closes = 0)
          /\ ~created => dialogs = << >>)
    /\ [][(closes' = closes + 1) =>
            /\ lockDels' = (IF InList(dialogs, SELF) /\ isMultisig
                            THEN lockDels + 1 ELSE lockDels)
            /\ (lockDels' # lockDels) => ~lock'.present
            /\ (lockDels' = lockDels) => lock' = lock
            /\ ~InList(dialogs', SELF)]_vars

\* C20 witness: a multisig dialog received a second close event through
\* the escape key; only the first one released
C20_Witness ==
    /\ lastOp = "reject" /\ closes = 2
    /\ isMultisig /\ lockDels = 1
    /\ ~InList(dialogs, SELF) /\ created

====
